---- MODULE Spec2Model ----
(***************************************************************************)
(* Model of src/src/main.py: the SAM.gov harvesting pipeline.              *)
(*                                                                         *)
(* main() pages through the search endpoint, drops summaries whose _id is  *)
(* already in seen_ids, and for each new one runs process_opportunity      *)
(* (detail request, attachment manifest, one browser download per public   *)
(* attachment) and pushes the assembled record.  The upstream, the         *)
(* browser, the key-value store and the dataset are the environment: each  *)
(* of their answers is a nondeterministic choice made when the code asks.  *)
(* Python dicts are functions whose DOMAIN is the set of keys present.     *)
(* The upstream's documents are well typed: a field may be missing or      *)
(* null, but a summary is a dict with a string _id and an attachment name  *)
(* is a string.  A body that cannot be read ("bad_body") stands for every  *)
(* answer that makes the reading code raise.                               *)
(***************************************************************************)
EXTENDS Integers, Sequences, FiniteSets, TLC

\* ------------------------------------------------------------- bounds
\* The largest maxOpportunities tried, and the number of items (summaries
\* and manifest entries together) the upstream serves in one run.
MaxBudget == 2
MaxItems == 3
\* The longest filename handed to the sanitization on its own.
MaxNameLen == 3

\* Values the environment draws from.
Ids == {"o1", "o2"}
ResourceIds == {"r1"}
Sizes == {0, 1, 2}

\* Python's None, and the marker of a key the upstream JSON does not hold.
None == "None"
Missing == "Missing"

\* Filenames are sequences of one-character strings.
AlnumChars == {"a", "b", "p", "d", "f", "P", "D", "F", "1"}
Filenames == { <<"a", "/", ".", "P", "D", "F">>, <<"b">> }

\* ------------------------------------------------------------- helpers
RECURSIVE SeqsUpTo(_, _)
SeqsUpTo(S, n) ==
    IF n = 0 THEN {<<>>}
    ELSE LET shorter == SeqsUpTo(S, n - 1)
         IN  shorter \cup {Append(s, x) : s \in {t \in shorter : Len(t) = n - 1}, x \in S}

\* d[k] = v on a Python dict.
SetKey(d, k, v) == [x \in DOMAIN d \cup {k} |-> IF x = k THEN v ELSE d[x]]

EmptyDict == [x \in {} |-> None]

\* Multisets of requests: how many times each was issued.
Count(bag, x) == IF x \in DOMAIN bag THEN bag[x] ELSE 0
BagAdd(bag, x) == SetKey(bag, x, Count(bag, x) + 1)

Min(a, b) == IF a <= b THEN a ELSE b

\* ------------------------------------------------------------- constants of the code
NON_PUBLIC_ERROR == "Non-public access level"
DOWNLOAD_BLOCKED_ERROR == "Download blocked. Use downloadUrl to fetch manually from browser."
TEXT_LIMIT == 50000

\* URLs the code requests, as <<endpoint, argument>>.
SearchUrl(p) == <<"search", p>>
DetailsUrl(id) == <<"details", id>>
ResourcesUrl(id) == <<"resources", id>>
download_url(rid) == <<"download", rid>>
OppPageUrl(id) == <<"view", id>>

\* Keys process_opportunity sets only from the detail document.
DetailKeys == {"naicsCode", "pscCode", "setAsideType", "setAsideDescription",
               "placeOfPerformance", "contacts", "award"}

VARIABLES
    max_opportunities, download_attachments, extract_text, browser_context,
    pc, opportunities_fetched, seen_ids, page, opportunities, idx, opp_id,
    opportunity_data, attachment, att_pos, file_info, result, download_success, tabs,
    pushed, store, gets, attempts, sleeps, served, lastSearch, lastDetails,
    lastResources, acquired, captured

vars == <<max_opportunities, download_attachments, extract_text, browser_context,
          pc, opportunities_fetched, seen_ids, page, opportunities, idx, opp_id,
          opportunity_data, attachment, att_pos, file_info, result, download_success, tabs,
          pushed, store, gets, attempts, sleeps, served, lastSearch, lastDetails,
          lastResources, acquired, captured>>

inputs == <<max_opportunities, download_attachments, extract_text, browser_context>>
\* Locals of get_and_download_attachments; captured holds the
\* length of the file the browser handed over in the attempt under way, and
\* is empty when it handed over none.
attv == <<attachment, att_pos, file_info, result, download_success, attempts, acquired,
          captured>>
\* What the environment has seen the run do.
envv == <<tabs, store, gets, served>>

EmptyResult == [files |-> <<>>, texts |-> <<>>]
\* The loop variable of the attachment loop before its first entry.
NoEntry == [unbound |-> TRUE]

\* ------------------------------------------------------------- main, lines 46-92
Init ==
    /\ max_opportunities \in (-1)..MaxBudget
    /\ download_attachments \in BOOLEAN
    /\ extract_text \in BOOLEAN
    \* browser_context stays None when downloads are off or the launch raises.
    /\ browser_context \in (IF download_attachments THEN BOOLEAN ELSE {FALSE})
    /\ pc = "while"
    /\ opportunities_fetched = 0
    /\ seen_ids = {}
    /\ page = 0
    /\ opportunities = <<>>
    /\ idx = 0
    /\ opp_id = None
    /\ opportunity_data = EmptyDict
    /\ attachment = NoEntry
    /\ att_pos = 0
    /\ file_info = EmptyDict
    /\ result = EmptyResult
    /\ download_success = FALSE
    /\ tabs = 0
    /\ pushed = <<>>
    /\ store = EmptyDict
    /\ gets = EmptyDict
    /\ attempts = EmptyDict
    /\ sleeps = 0
    /\ served = 0
    /\ lastSearch = None
    /\ lastDetails = None
    /\ lastResources = None
    /\ acquired = FALSE
    /\ captured = {}

\* ------------------------------------------------------------- search_opportunities
\* What the upstream can answer to a search: a page of summaries (their _id),
\* an HTTP or transport failure, or a 2xx body that is not JSON.
SearchResponses ==
    {[kind |-> "ok", results |-> r] : r \in SeqsUpTo(Ids, MaxItems - served)}
    \cup {[kind |-> k, results |-> <<>>] : k \in {"http_error", "bad_body"}}

\* Mutant of search_opportunities: the HTTP error is not caught.
search_opportunities_Raise(resp) ==
    IF resp.kind = "ok" THEN [raised |-> FALSE, value |-> resp.results]
    ELSE [raised |-> TRUE, value |-> <<>>]

\* Lines 199-210: the value returned, or the exception that leaves the function.
search_opportunities(resp) ==
    CASE resp.kind = "ok" -> [raised |-> FALSE, value |-> resp.results]
      [] resp.kind = "http_error" -> [raised |-> FALSE, value |-> <<>>]
      [] OTHER -> [raised |-> TRUE, value |-> <<>>]

\* Mutant of IsEmptyPage: an empty page does not end the loop.
IsEmptyPage_Never(results) == FALSE

\* Line 110: the end-of-results test.
IsEmptyPage(results) == results = <<>>

\* What the upstream did with the last search request.
SearchGhost(resp) ==
    IF resp.kind = "ok"
    THEN (IF resp.results = <<>> THEN "empty" ELSE "results")
    ELSE resp.kind

\* Mutant of BudgetLeft: the budget test is off by one.
BudgetLeft_OffByOne == opportunities_fetched <= max_opportunities

\* Line 94: the loop condition.
BudgetLeft == opportunities_fetched < max_opportunities

\* Mutant of BudgetReached: the test inside the page is off by one.
BudgetReached_OffByOne == opportunities_fetched > max_opportunities

\* Line 115: the test before each summary of the page.
BudgetReached == opportunities_fetched >= max_opportunities

\* Lines 94, 142-147: the budget is used up, the run completes.
WhileExit ==
    /\ pc = "while"
    /\ ~BudgetLeft
    /\ pc' = "done"
    /\ UNCHANGED <<inputs, opportunities_fetched, seen_ids, page, opportunities, idx,
                   opp_id, opportunity_data, attv, envv, pushed, sleeps,
                   lastSearch, lastDetails, lastResources>>

\* Lines 94-112: one search request and the test of its result.
Search ==
    /\ pc = "while"
    /\ BudgetLeft
    /\ \E resp \in SearchResponses :
         LET r == search_opportunities(resp) IN
         /\ gets' = BagAdd(gets, SearchUrl(page))
         /\ served' = served + Len(resp.results)
         /\ lastSearch' = SearchGhost(resp)
         /\ IF r.raised
            THEN pc' = "aborted" /\ UNCHANGED <<opportunities, idx>>
            ELSE IF IsEmptyPage(r.value)
            THEN pc' = "done" /\ UNCHANGED <<opportunities, idx>>
            ELSE pc' = "for" /\ opportunities' = r.value /\ idx' = 1
    /\ UNCHANGED <<inputs, opportunities_fetched, seen_ids, page, opp_id,
                   opportunity_data, attv, tabs, store,
                   pushed, sleeps, lastDetails, lastResources>>

\* Mutant of NextPage: the pause between pages is left out.
NextPage_NoPause ==
    /\ page' = page + 1
    /\ sleeps' = sleeps
    /\ pc' = "while"
    /\ opportunities' = <<>>
    /\ idx' = 0

\* Lines 139-140: after the for loop, the next page and the pause.
\* The locals of the finished for loop are dead and are cleared.
NextPage ==
    /\ page' = page + 1
    /\ sleeps' = sleeps + 1
    /\ pc' = "while"
    /\ opportunities' = <<>>
    /\ idx' = 0

\* Line 114: the page is exhausted.
ForEnd ==
    /\ pc = "for"
    /\ idx > Len(opportunities)
    /\ NextPage
    /\ lastDetails' = None
    /\ UNCHANGED lastResources
    /\ UNCHANGED <<inputs, opportunities_fetched, seen_ids, opp_id,
                   opportunity_data, attv, envv, pushed, lastSearch>>

\* Lines 115-116: the budget is reached inside the page.
ForBreak ==
    /\ pc = "for"
    /\ idx <= Len(opportunities)
    /\ BudgetReached
    /\ NextPage
    /\ lastDetails' = None
    /\ UNCHANGED lastResources
    /\ UNCHANGED <<inputs, opportunities_fetched, seen_ids, opp_id,
                   opportunity_data, attv, envv, pushed, lastSearch>>

\* Mutant of IsSeen: the dedup test is dropped.
IsSeen_Never(id) == FALSE

\* Mutant of MarkSeen: the identifier is not recorded.
MarkSeen_Forget(id) == seen_ids

\* Line 119: the dedup test.
IsSeen(id) == id \in seen_ids

\* Line 121: the identifier is marked before any enrichment.
MarkSeen(id) == seen_ids \cup {id}

\* Mutant of ForSkip: the for loop does not move past a seen summary.
ForSkip_Stuck ==
    /\ pc = "for"
    /\ idx <= Len(opportunities)
    /\ ~BudgetReached
    /\ IsSeen(opportunities[idx])
    /\ opp_id' = None
    /\ idx' = idx
    /\ lastDetails' = None
    /\ UNCHANGED lastResources
    /\ UNCHANGED <<inputs, pc, opportunities_fetched, seen_ids, page, opportunities,
                   opportunity_data, attv, envv, pushed, sleeps, lastSearch>>

\* Lines 118-120: a summary whose _id was seen is dropped (opp_id is dead
\* once the iteration ends, and is cleared).
ForSkip ==
    /\ pc = "for"
    /\ idx <= Len(opportunities)
    /\ ~BudgetReached
    /\ IsSeen(opportunities[idx])
    /\ opp_id' = None
    /\ idx' = idx + 1
    /\ lastDetails' = None
    /\ UNCHANGED lastResources
    /\ UNCHANGED <<inputs, pc, opportunities_fetched, seen_ids, page, opportunities,
                   opportunity_data, attv, envv, pushed, sleeps, lastSearch>>

\* Lines 118-125: a new _id is marked seen and process_opportunity is called.
ForTake ==
    /\ pc = "for"
    /\ idx <= Len(opportunities)
    /\ ~BudgetReached
    /\ ~IsSeen(opportunities[idx])
    /\ opp_id' = opportunities[idx]
    /\ seen_ids' = MarkSeen(opportunities[idx])
    /\ pc' = "process"
    /\ lastDetails' = None
    /\ UNCHANGED lastResources
    /\ UNCHANGED <<inputs, opportunities_fetched, page, opportunities, idx,
                   opportunity_data, attv, envv, pushed, sleeps, lastSearch>>

\* Mutant of on_record_exception: the failed record is counted.
on_record_exception_Counted ==
    /\ pc' = "for"
    /\ idx' = idx + 1
    /\ opportunities_fetched' = opportunities_fetched + 1
    /\ UNCHANGED pushed

\* Mutant of on_record_exception: the exception ends the run.
on_record_exception_Abort ==
    /\ pc' = "aborted"
    /\ UNCHANGED <<idx, opportunities_fetched, pushed>>

\* Lines 135-137: the per-record handler logs and continues with the next summary.
on_record_exception ==
    /\ pc' = "for"
    /\ idx' = idx + 1
    /\ UNCHANGED <<opportunities_fetched, pushed>>

\* The locals of a finished iteration are dead and are cleared.
EndIteration ==
    /\ opp_id' = None
    /\ opportunity_data' = EmptyDict

\* ------------------------------------------------------------- process_opportunity
\* Lines 222-255: the record built from the summary alone.
SummaryRecord(id) ==
    [x \in {"opportunityId", "attachments", "attachmentTexts"} |->
        IF x = "opportunityId" THEN id ELSE <<>>]

\* Lines 222-255: the summary is mapped; a malformed organizationHierarchy or
\* descriptions entry raises.
BuildRecord ==
    /\ pc = "process"
    /\ \/ /\ opportunity_data' = SummaryRecord(opp_id)
          /\ pc' = "details"
          /\ UNCHANGED <<idx, opportunities_fetched, pushed, opp_id>>
       \/ on_record_exception /\ EndIteration
    /\ UNCHANGED <<inputs, seen_ids, page, opportunities, attv, envv,
                   sleeps, lastSearch, lastDetails, lastResources>>

\* What the upstream can answer to a detail request; lastDetails keeps the
\* answer until the next iteration starts.
DetailResponses == {"ok", "http_error", "bad_body"}

\* Mutant of get_opportunity_details: the HTTP error is not caught.
get_opportunity_details_Raise(resp) ==
    IF resp = "ok" THEN [raised |-> FALSE, value |-> "details"]
    ELSE [raised |-> TRUE, value |-> None]

\* Lines 323-335: the document, None on httpx.HTTPError, or the exception of
\* response.json() that leaves the function.
get_opportunity_details(resp) ==
    CASE resp = "ok" -> [raised |-> FALSE, value |-> "details"]
      [] resp = "http_error" -> [raised |-> FALSE, value |-> None]
      [] OTHER -> [raised |-> TRUE, value |-> None]

\* Lines 259-309: the fields taken from the detail document.
WithDetails(rec, details) ==
    IF details = None THEN rec
    ELSE SetKey(SetKey(SetKey(rec, "pscCode", details),
                       "placeOfPerformance", details), "contacts", details)

\* Lines 257-312: the detail request and the fields it fills.
GetDetails ==
    /\ pc = "details"
    /\ gets' = BagAdd(gets, DetailsUrl(opp_id))
    /\ \E resp \in DetailResponses :
         LET d == get_opportunity_details(resp) IN
         /\ lastDetails' = resp
         /\ IF d.raised
            THEN on_record_exception /\ EndIteration
            ELSE /\ opportunity_data' = WithDetails(opportunity_data, d.value)
                 /\ pc' = IF download_attachments THEN "resources" ELSE "push"
                 /\ UNCHANGED <<idx, opportunities_fetched, pushed, opp_id>>
    /\ UNCHANGED <<inputs, seen_ids, page, opportunities, attv,
                   tabs, store, served, sleeps, lastSearch, lastResources>>

\* Lines 316-320, 470: get_and_download_attachments returns and its lists are
\* put in the record.
ReturnAttachments(res) ==
    /\ opportunity_data' =
         LET withFiles == SetKey(opportunity_data, "attachments", res.files)
         IN  IF extract_text THEN SetKey(withFiles, "attachmentTexts", res.texts)
             ELSE withFiles
    /\ pc' = "push"
    /\ attachment' = NoEntry
    /\ att_pos' = 0
    /\ file_info' = EmptyDict
    /\ result' = EmptyResult
    /\ download_success' = FALSE
    /\ attempts' = EmptyDict
    /\ acquired' = FALSE
    /\ captured' = {}

\* What the upstream can answer to the manifest request: a status other than
\* 200, a transport failure, a body that is not JSON, a body with no
\* attachment groups, or attachment groups.
ResourceResponses == {"status", "transport", "bad_body", "no_groups", "ok"}

\* Mutant of manifest_request: a failure of the request is not caught.
manifest_request_Raise(resp) ==
    CASE resp = "ok" -> "loop"
      [] resp \in {"status", "no_groups"} -> "return"
      [] OTHER -> "raise"

\* Lines 351-363, 467-470: what get_and_download_attachments does with the
\* answer: it enters the loop over the entries, or returns the empty result
\* (lines 357 and 363, and line 470 after the handler of line 467 caught
\* the exception of client.get or response.json()); nothing is raised.
manifest_request(resp) ==
    CASE resp = "ok" -> "loop"
      [] OTHER -> "return"

\* Lines 346-363, 467-470: the manifest request; lastResources keeps the
\* answer until the record's iteration ends.
GetResources ==
    /\ pc = "resources"
    /\ gets' = BagAdd(gets, ResourcesUrl(opp_id))
    /\ \E resp \in ResourceResponses :
         /\ lastResources' = resp
         /\ CASE manifest_request(resp) = "loop" ->
                   /\ pc' = "att"
                   /\ result' = EmptyResult
                   /\ att_pos' = 0
                   /\ UNCHANGED <<opportunity_data, attachment, file_info,
                                  download_success, attempts, acquired, captured,
                                  idx, opportunities_fetched, pushed, opp_id>>
              [] manifest_request(resp) = "return" ->
                   /\ ReturnAttachments(EmptyResult)
                   /\ UNCHANGED <<idx, opportunities_fetched, pushed, opp_id>>
              [] OTHER ->
                   /\ on_record_exception
                   /\ EndIteration
                   /\ UNCHANGED attv
    /\ UNCHANGED <<inputs, seen_ids, page, opportunities, tabs, store, served,
                   sleeps, lastSearch, lastDetails>>

\* What the dataset keeps of a pushed record, as far as this model reads it
\* back: its identifier and the stored payloads its descriptors name.  The
\* whole record is opportunity_data when pc = "push".
Delivered(rec) ==
    [opportunityId |-> rec.opportunityId,
     stored |-> {<<rec.attachments[i].storageKey, rec.attachments[i].downloadedSize>> :
                   i \in {j \in DOMAIN rec.attachments :
                            "storageKey" \in DOMAIN rec.attachments[j]}}]

\* Lines 129-137: the record is pushed and counted, or push_data raises.
Push ==
    /\ pc = "push"
    /\ \/ /\ pushed' = Append(pushed, Delivered(opportunity_data))
          /\ opportunities_fetched' = opportunities_fetched + 1
          /\ idx' = idx + 1
          /\ pc' = "for"
       \/ on_record_exception
    /\ EndIteration
    /\ lastDetails' = None
    /\ lastResources' = None
    /\ UNCHANGED <<inputs, seen_ids, page, opportunities, attv, envv,
                   sleeps, lastSearch>>

\* ------------------------------------------------------------- get_and_download_attachments
\* A manifest entry: JSON null, or a dict with the fields the code reads.
\* accessLevel is Missing when the entry has no such key, None when it is null.
NullEntry == [null |-> TRUE]
Entry(del, rid, name, access) ==
    [deletedFlag |-> del, resourceId |-> rid, name |-> name, accessLevel |-> access]

\* The entries the upstream serves: null, deleted ones and ones without
\* resourceId (public and not), and live ones of every name and access level.
Entries ==
    {NullEntry}
    \cup {Entry("1", rid, <<"b">>, a) : rid \in ResourceIds, a \in {"public", "private"}}
    \cup {Entry("0", None, <<"b">>, a) : a \in {"public", "private"}}
    \cup {Entry("0", rid, n, a) : rid \in ResourceIds, n \in Filenames,
                                  a \in {"public", "private", None, Missing}}

\* Mutant of IsSkipped: the deletion flag is not looked at.
IsSkipped_IgnoreDeleted(e) ==
    IF "null" \in DOMAIN e THEN TRUE
    ELSE e.resourceId = None

\* Lines 370-373, 381-382: entries the loop passes over.
IsSkipped(e) ==
    IF "null" \in DOMAIN e THEN TRUE
    ELSE e.deletedFlag = "1" \/ e.resourceId = None

\* Mutant of access_level: a missing accessLevel reads as null.
access_level_DefaultNone(e) == IF e.accessLevel = Missing THEN None ELSE e.accessLevel

\* Line 379: attachment.get("accessLevel", "public").
access_level(e) == IF e.accessLevel = Missing THEN "public" ELSE e.accessLevel

\* Lines 384-395: the descriptor built from the entry.
FileInfo(e) ==
    [filename |-> e.name, resourceId |-> e.resourceId,
     accessLevel |-> access_level(e), downloadUrl |-> download_url(e.resourceId)]

\* Mutant of IsPublic: a null access level passes the gate.
IsPublic_NullPasses(e) == access_level(e) \in {"public", None}

\* Line 398: the access gate.
IsPublic(e) == access_level(e) = "public"

\* Mutant of safe_filename: the space is not among the characters kept.
safe_filename_DropSpace(name) ==
    SelectSeq(name, LAMBDA c : c \in AlnumChars \/ c \in {".", "_", "-"})

\* Line 432: the characters of the filename that are kept.
safe_filename(name) ==
    SelectSeq(name, LAMBDA c : c \in AlnumChars \/ c \in {".", "_", "-", " "})

\* Mutant of file_key: the key is built from the filename as served.
file_key_Raw(id, name) == <<id, name>>

\* Line 433: the storage key.
file_key(id, name) == <<id, safe_filename(name)>>

Lower(c) ==
    CASE c = "P" -> "p" [] c = "D" -> "d" [] c = "F" -> "f" [] OTHER -> c

\* Line 441: filename.lower().endswith('.pdf').
IsPdf(name) ==
    /\ Len(name) >= 4
    /\ [i \in 1..4 |-> Lower(name[Len(name) - 4 + i])] = <<".", "p", "d", "f">>

\* Mutant of Recorded: the failure marker is set whatever the outcome.
Recorded_Always(fi, success) == SetKey(fi, "downloadError", DOWNLOAD_BLOCKED_ERROR)

\* Mutant of Recorded: the failure marker is not set.
Recorded_NoError(fi, success) == fi

\* Lines 458-463: the outcome of a public attachment is recorded.
Recorded(fi, success) ==
    IF success THEN fi ELSE SetKey(fi, "downloadError", DOWNLOAD_BLOCKED_ERROR)

\* Line 401 and line 463: result["files"].append(file_info).
AppendFile(fi) ==
    /\ result' = [result EXCEPT !.files = Append(@, fi)]
    /\ file_info' = fi

\* Lines 366-369, 465-470: the manifest holds no further entry.
AttEnd ==
    /\ pc = "att"
    /\ ReturnAttachments(result)
    /\ UNCHANGED <<inputs, opportunities_fetched, seen_ids, page, opportunities, idx,
                   opp_id, envv, pushed, sleeps, lastSearch, lastDetails, lastResources>>

\* The loop takes the next entry of the manifest.
TakeEntry(e) ==
    /\ pc = "att"
    /\ served < MaxItems
    /\ served' = served + 1
    /\ attachment' = e
    /\ att_pos' = att_pos + 1
    /\ acquired' = FALSE
    /\ captured' = {}

\* Lines 370-382: a null or deleted entry, or one without resourceId.
AttSkip ==
    /\ pc = "att"
    /\ \E e \in Entries :
         /\ IsSkipped(e)
         /\ TakeEntry(e)
    /\ UNCHANGED <<inputs, pc, opportunities_fetched, seen_ids, page, opportunities, idx,
                   opp_id, opportunity_data, file_info, result, download_success,
                   tabs, store, gets, attempts, pushed, sleeps,
                   lastSearch, lastDetails, lastResources>>

\* Lines 397-402: an entry that is not public is listed with the skip marker.
AttNonPublic ==
    /\ pc = "att"
    /\ \E e \in Entries :
         /\ ~IsSkipped(e)
         /\ ~IsPublic(e)
         /\ TakeEntry(e)
         /\ AppendFile(SetKey(FileInfo(e), "downloadError", NON_PUBLIC_ERROR))
    /\ UNCHANGED <<inputs, pc, opportunities_fetched, seen_ids, page, opportunities, idx,
                   opp_id, opportunity_data, download_success,
                   tabs, store, gets, attempts, pushed, sleeps,
                   lastSearch, lastDetails, lastResources>>

\* Lines 404-407, 458-463: a public entry when there is no browser context.
AttNoBrowser ==
    /\ pc = "att"
    /\ ~browser_context
    /\ \E e \in Entries :
         /\ ~IsSkipped(e)
         /\ IsPublic(e)
         /\ TakeEntry(e)
         /\ download_success' = FALSE
         /\ AppendFile(Recorded(FileInfo(e), FALSE))
    /\ UNCHANGED <<inputs, pc, opportunities_fetched, seen_ids, page, opportunities, idx,
                   opp_id, opportunity_data,
                   tabs, store, gets, attempts, pushed, sleeps,
                   lastSearch, lastDetails, lastResources>>

\* Lines 404-410: a public entry, a tab is opened for its download.
AttNewPage ==
    /\ pc = "att"
    /\ browser_context
    /\ \E e \in Entries :
         /\ ~IsSkipped(e)
         /\ IsPublic(e)
         /\ TakeEntry(e)
         /\ file_info' = FileInfo(e)
         /\ attempts' = BagAdd(attempts, <<opp_id, att_pos + 1>>)
    /\ download_success' = FALSE
    /\ tabs' = tabs + 1
    /\ pc' = "tab"
    /\ UNCHANGED <<inputs, opportunities_fetched, seen_ids, page, opportunities, idx,
                   opp_id, opportunity_data, result,
                   store, gets, pushed, sleeps, lastSearch, lastDetails, lastResources>>

\* Mutant of AttNewPageFail: the exception of new_page() is not caught at the
\* entry and ends the loop.
AttNewPageFail_Raises ==
    /\ pc = "att"
    /\ browser_context
    /\ \E e \in Entries :
         /\ ~IsSkipped(e)
         /\ IsPublic(e)
    /\ served < MaxItems
    /\ served' = served + 1
    /\ ReturnAttachments(result)
    /\ UNCHANGED <<inputs, opportunities_fetched, seen_ids, page, opportunities, idx,
                   opp_id, tabs, store, gets, pushed, sleeps, lastSearch,
                   lastDetails, lastResources>>

\* Lines 410, 455-463: new_page() raises, the entry is recorded as failed.
AttNewPageFail ==
    /\ pc = "att"
    /\ browser_context
    /\ \E e \in Entries :
         /\ ~IsSkipped(e)
         /\ IsPublic(e)
         /\ TakeEntry(e)
         /\ attempts' = BagAdd(attempts, <<opp_id, att_pos + 1>>)
         /\ AppendFile(Recorded(FileInfo(e), FALSE))
    /\ download_success' = FALSE
    /\ UNCHANGED <<inputs, pc, opportunities_fetched, seen_ids, page, opportunities, idx,
                   opp_id, opportunity_data,
                   tabs, store, gets, pushed, sleeps, lastSearch,
                   lastDetails, lastResources>>

\* What extract_pdf_text returns (lines 473-489): None, or a text of some
\* length.
ExtractResults ==
    {[isNone |-> TRUE, len |-> 0]} \cup [isNone : {FALSE}, len : {0, 7, TEXT_LIMIT + 1}]

\* What the browser can do with one download: the opportunity page fails to
\* load, no download event comes, the download has no path, or a file of
\* some size is read; the store write and the text extraction have their own
\* outcomes.
DownloadOutcomes ==
    [kind : {"nav_error", "no_download", "no_path"}, size : {0},
     stored : {FALSE}, text : {[isNone |-> TRUE, len |-> 0]}]
    \cup [kind : {"file"}, size : Sizes, stored : BOOLEAN, text : ExtractResults]

\* Mutant of IsSuccess: the length of the payload is not looked at.
IsSuccess_EmptyOk(o) == o.kind = "file" /\ o.stored

\* Line 429 and 431-434: the payload is not empty and the store took it.
IsSuccess(o) == o.kind = "file" /\ o.size > 0 /\ o.stored

\* Mutant of WithText: the text is kept whole.
WithText_NoLimit(texts, name, o) ==
    IF extract_text /\ IsPdf(name) /\ ~o.text.isNone /\ o.text.len > 0
    THEN Append(texts, [filename |-> name, text |-> o.text.len])
    ELSE texts

\* Lines 440-447: the text entry added for a PDF; text is the length of the
\* string kept.
WithText(texts, name, o) ==
    IF extract_text /\ IsPdf(name) /\ ~o.text.isNone /\ o.text.len > 0
    THEN Append(texts, [filename |-> name, text |-> Min(o.text.len, TEXT_LIMIT)])
    ELSE texts

\* Lines 412-451: the session page, the download, the store write, the text.
Download ==
    /\ pc = "tab"
    /\ \E o \in DownloadOutcomes :
         /\ IF IsSuccess(o)
            THEN /\ store' = SetKey(store, file_key(opp_id, file_info.filename), o.size)
                 /\ file_info' = SetKey(SetKey(file_info, "storageKey",
                                               file_key(opp_id, file_info.filename)),
                                        "downloadedSize", o.size)
                 /\ result' = [result EXCEPT
                                 !.texts = WithText(@, file_info.filename, o)]
                 /\ download_success' = TRUE
            ELSE UNCHANGED <<store, file_info, result, download_success>>
         /\ acquired' = IsSuccess(o)
         /\ captured' = IF o.kind = "file" THEN {o.size} ELSE {}
    /\ pc' = "close"
    /\ UNCHANGED <<inputs, opportunities_fetched, seen_ids, page, opportunities, idx,
                   opp_id, opportunity_data, attachment, att_pos,
                   tabs, gets, attempts, served, pushed, sleeps, lastSearch,
                   lastDetails, lastResources>>

\* Mutant of ClosePage: the tab is closed only after a successful download.
ClosePage_OnSuccessOnly ==
    /\ pc = "close"
    /\ tabs' = IF download_success THEN tabs - 1 ELSE tabs
    /\ AppendFile(Recorded(file_info, download_success))
    /\ pc' = "att"
    /\ UNCHANGED <<inputs, opportunities_fetched, seen_ids, page, opportunities, idx,
                   opp_id, opportunity_data, attachment, att_pos, download_success,
                   store, gets, attempts, served, pushed, sleeps,
                   lastSearch, lastDetails, lastResources, acquired>>
    /\ captured' = {}

\* Lines 452-463: the finally clause calls page.close() on every path; tabs
\* counts the pages on which it has not been called.  When close() raises,
\* line 455 catches it; either way the outcome is recorded next.
ClosePage ==
    /\ pc = "close"
    /\ \E raised \in BOOLEAN : tabs' = tabs - 1
    /\ AppendFile(Recorded(file_info, download_success))
    /\ pc' = "att"
    /\ UNCHANGED <<inputs, opportunities_fetched, seen_ids, page, opportunities, idx,
                   opp_id, opportunity_data, attachment, att_pos, download_success,
                   store, gets, attempts, served, pushed, sleeps,
                   lastSearch, lastDetails, lastResources, acquired>>
    /\ captured' = {}

\* ------------------------------------------------------------- the run
Next ==
    \/ WhileExit
    \/ Search
    \/ ForEnd
    \/ ForBreak
    \/ ForSkip
    \/ ForTake
    \/ BuildRecord
    \/ GetDetails
    \/ GetResources
    \/ AttEnd
    \/ AttSkip
    \/ AttNonPublic
    \/ AttNoBrowser
    \/ AttNewPage
    \/ AttNewPageFail
    \/ Download
    \/ ClosePage
    \/ Push

Spec == Init /\ [][Next]_vars

\* main is one coroutine: every await returns (a response or an exception,
\* the clients carry timeouts) and the statement after it runs, so a step
\* that can be taken is taken.
FairSpec == Spec /\ WF_vars(Next)

\* ------------------------------------------------------------- properties
PushedIds == {pushed[i].opportunityId : i \in DOMAIN pushed}

\* The descriptors of the record in the making: those listed so far by
\* get_and_download_attachments and those already put in the record.
Descriptors ==
    {result.files[i] : i \in DOMAIN result.files}
    \cup (IF "attachments" \in DOMAIN opportunity_data
          THEN {opportunity_data.attachments[i] : i \in DOMAIN opportunity_data.attachments}
          ELSE {})

\* The loop variable holds an entry the loop did not pass over.
IsLive(e) == "resourceId" \in DOMAIN e /\ ~IsSkipped(e)

\* The descriptor appended last.
LastFile == result.files[Len(result.files)]

\* C1: the number of records pushed never exceeds maxOpportunities, and
\* nothing is pushed when maxOpportunities <= 0.
C1_PushedWithinBudget ==
    /\ Len(pushed) <= (IF max_opportunities > 0 THEN max_opportunities ELSE 0)
    /\ opportunities_fetched = Len(pushed)

\* The budget is reached while the page still holds a summary.
C1_Witness ==
    /\ pc = "for"
    /\ idx <= Len(opportunities)
    /\ max_opportunities >= 1
    /\ Len(pushed) = max_opportunities

\* C2: no two pushed records carry the same opportunity identifier.
C2_NoDuplicatePush ==
    \A i, j \in DOMAIN pushed :
        i # j => pushed[i].opportunityId # pushed[j].opportunityId

\* An identifier pushed from page 0 came again at the head of a later page
\* and was dropped there.
C2_Witness ==
    /\ pc = "for"
    /\ page >= 1
    /\ idx >= 2
    /\ Cardinality(seen_ids) = 1
    /\ Len(pushed) = 1

\* C3: per identifier the detail request and the manifest request are issued
\* at most once, each download attempt of a manifest is made at most once,
\* and the step that meets a seen identifier issues no request and starts no
\* enrichment.
C3_EnrichOnce ==
    /\ [](/\ \A id \in Ids : /\ Count(gets, DetailsUrl(id)) <= 1
                             /\ Count(gets, ResourcesUrl(id)) <= 1
          /\ \A a \in DOMAIN attempts : attempts[a] <= 1)
    /\ [][(/\ pc = "for"
           /\ idx <= Len(opportunities)
           /\ BudgetLeft
           /\ opportunities[idx] \in seen_ids)
          => (/\ gets' = gets
              /\ attempts' = attempts
              /\ tabs' = tabs
              /\ store' = store
              /\ pc' = "for"
              /\ idx' = idx + 1)]_vars

\* An identifier whose attachment was downloaded and stored came again on a
\* later page and was dropped.
C3_Witness ==
    /\ pc = "for"
    /\ page >= 1
    /\ idx >= 2
    /\ Cardinality(seen_ids) = 1
    /\ \E id \in seen_ids : Count(gets, ResourcesUrl(id)) = 1
    /\ DOMAIN store # {}

\* C4: a descriptor whose access level is not 'public' is never downloaded
\* (no tab, no store write) and is listed with its downloadUrl and
\* downloadError = 'Non-public access level', a marker other than that of a
\* failed download.
C4_NonPublicSkipped ==
    /\ NON_PUBLIC_ERROR # DOWNLOAD_BLOCKED_ERROR
    /\ \A f \in Descriptors :
         f.accessLevel # "public" =>
            /\ "downloadError" \in DOMAIN f
            /\ f.downloadError = NON_PUBLIC_ERROR
            /\ f.downloadUrl = download_url(f.resourceId)
            /\ "storageKey" \notin DOMAIN f
    /\ pc \in {"tab", "close"} => file_info.accessLevel = "public"
    /\ (pc = "att" /\ IsLive(attachment) /\ attachment.accessLevel \notin {"public", Missing})
         => /\ Len(result.files) >= 1
            /\ LastFile.resourceId = attachment.resourceId
            /\ LastFile.accessLevel = attachment.accessLevel
            /\ LastFile.downloadError = NON_PUBLIC_ERROR
            /\ <<opp_id, att_pos>> \notin DOMAIN attempts
    /\ pc \in {"att", "tab", "close"} =>
         \A key \in DOMAIN store :
            key[1] = opp_id =>
               \E f \in Descriptors \cup {file_info} :
                  /\ "storageKey" \in DOMAIN f
                  /\ f.storageKey = key
                  /\ f.accessLevel = "public"

\* A record about to be pushed lists a non-public attachment although a
\* browser was there to download it.
C4_Witness ==
    /\ pc = "push"
    /\ browser_context
    /\ \E i \in DOMAIN opportunity_data.attachments :
         opportunity_data.attachments[i].accessLevel # "public"

\* C5: a public attachment whose acquisition brought no stored payload is
\* listed with a non-empty downloadUrl, a non-empty downloadError and no
\* storageKey.
C5_FailureKeepsUrl ==
    /\ (pc = "att" /\ IsLive(attachment) /\ IsPublic(attachment) /\ ~acquired)
         => /\ Len(result.files) >= 1
            /\ LastFile.resourceId = attachment.resourceId
            /\ LastFile.downloadUrl = download_url(attachment.resourceId)
            /\ "downloadError" \in DOMAIN LastFile
            /\ LastFile.downloadError # ""
            /\ "storageKey" \notin DOMAIN LastFile
    /\ \A f \in Descriptors :
         "storageKey" \notin DOMAIN f =>
            /\ "downloadError" \in DOMAIN f
            /\ f.downloadError # ""
            /\ f.downloadUrl = download_url(f.resourceId)
            /\ f.resourceId # None

\* The browser made an attempt for a public attachment, nothing was stored,
\* and the descriptor has been listed.
C5_Witness ==
    /\ pc = "att"
    /\ browser_context
    /\ IsLive(attachment)
    /\ IsPublic(attachment)
    /\ ~acquired
    /\ Count(attempts, <<opp_id, att_pos>>) = 1
    /\ Len(result.files) = att_pos

C7_RecordFailureContained ==
    /\ [](pc = "for" => \A j \in 1..(idx - 1) :
                            j <= Len(opportunities) => opportunities[j] \in seen_ids)
    /\ [][(/\ pc \in {"process", "details", "push"}
           /\ Len(pushed') = Len(pushed)
           /\ pc' \notin {"details", "resources", "push"})
          => (/\ pc' = "for"
              /\ idx' = idx + 1
              /\ opportunities' = opportunities
              /\ page' = page
              /\ seen_ids' = seen_ids
              /\ opportunities_fetched' = opportunities_fetched)]_vars

\* The first summary of page 0 failed, nothing is pushed, and a later
\* summary of the page is in process.
C7_Witness ==
    /\ pc = "process"
    /\ page = 0
    /\ idx >= 2
    /\ pushed = <<>>

\* C8: when the detail request fails, the record goes on from the summary
\* with no detail-derived field, and unless push_data itself raises it is
\* pushed.
C8_DetailFailureTolerated ==
    /\ [](lastDetails = "http_error" =>
            /\ pc \in {"resources", "att", "tab", "close", "push"}
            /\ opportunity_data.opportunityId = opp_id
            /\ DOMAIN opportunity_data \cap DetailKeys = {})
    /\ [][(/\ pc = "push"
           /\ lastDetails = "http_error"
           /\ opportunities_fetched' # opportunities_fetched)
          => pushed' = Append(pushed, Delivered(opportunity_data))]_vars

\* A record whose detail request failed is about to be pushed with the
\* attachments it got.
C8_Witness ==
    /\ pc = "push"
    /\ lastDetails = "http_error"
    /\ Len(opportunity_data.attachments) >= 1

\* C9 as claimed: a search request that fails ends in an error, not in the
\* outcome of a page without results.
C9_Original == lastSearch = "http_error" => pc = "aborted"

\* C9, amended: a search request that hits a network or HTTP failure
\* returns the empty sequence, and main ends the run as for a page without
\* results.
C9_FailureEndsRun ==
    lastSearch = "http_error" =>
        /\ pc = "done"
        /\ Count(gets, SearchUrl(page)) = 1

\* A later page request failed after records were pushed.
C9_Witness ==
    /\ lastSearch = "http_error"
    /\ pc = "done"
    /\ page >= 1
    /\ Len(pushed) >= 1

\* C10: the first empty page ends the run, with no error and no request
\* after it; an empty page 0 leaves nothing pushed.
C10_EmptyPageEndsRun ==
    /\ [](lastSearch = "empty" =>
            /\ pc = "done"
            /\ \A u \in DOMAIN gets : u[1] = "search" => u[2] <= page
            /\ Count(gets, SearchUrl(page)) = 1
            /\ page = 0 => /\ pushed = <<>>
                           /\ DOMAIN gets = {SearchUrl(0)})
    /\ [][lastSearch = "empty" => (gets' = gets /\ attempts' = attempts)]_vars

\* An empty page came after records were pushed.
C10_Witness ==
    /\ lastSearch = "empty"
    /\ pc = "done"
    /\ page >= 1
    /\ Len(pushed) >= 1

\* A descriptor carries an outcome.
HasOutcome(f) == "storageKey" \in DOMAIN f \/ "downloadError" \in DOMAIN f

\* C11: inside get_and_download_attachments every entry that is not deleted
\* and has a resource identifier is listed with its own outcome before the
\* next entry is taken, whatever happened to its download (the tab could not
\* be opened or closed, the download failed); the descriptors listed before
\* stay as they were; and the function is left only by returning the whole
\* list to the record once the manifest hands over no further entry.
C11_AttachmentsIndependent ==
    /\ [][(/\ pc = "att"
           /\ att_pos' = att_pos + 1
           /\ "resourceId" \in DOMAIN attachment'
           /\ attachment'.deletedFlag # "1"
           /\ attachment'.resourceId # None)
          => \/ /\ pc' = "tab"
                /\ result'.files = result.files
             \/ /\ pc' = "att"
                /\ Len(result'.files) = Len(result.files) + 1
                /\ SubSeq(result'.files, 1, Len(result.files)) = result.files
                /\ result'.files[Len(result'.files)].resourceId = attachment'.resourceId
                /\ result'.files[Len(result'.files)].filename = attachment'.name
                /\ HasOutcome(result'.files[Len(result'.files)])]_vars
    /\ [][pc = "tab" => (pc' = "close" /\ result'.files = result.files)]_vars
    /\ [][pc = "close"
          => /\ pc' = "att"
             /\ Len(result'.files) = Len(result.files) + 1
             /\ SubSeq(result'.files, 1, Len(result.files)) = result.files
             /\ result'.files[Len(result'.files)].resourceId = attachment.resourceId
             /\ result'.files[Len(result'.files)].filename = attachment.name
             /\ HasOutcome(result'.files[Len(result'.files)])]_vars
    /\ [][(pc \in {"att", "tab", "close"} /\ pc' \notin {"att", "tab", "close"})
          => /\ pc = "att"
             /\ pc' = "push"
             /\ served' = served
             /\ opportunity_data'.attachments = result.files]_vars

\* The browser attempt for the first entry of a manifest failed, and its
\* sibling was attempted after it and stored.
C11_Witness ==
    /\ pc = "att"
    /\ att_pos = 2
    /\ Len(result.files) = 2
    /\ Count(attempts, <<opp_id, 1>>) = 1
    /\ "downloadError" \in DOMAIN result.files[1]
    /\ result.files[1].downloadError = DOWNLOAD_BLOCKED_ERROR
    /\ "storageKey" \in DOMAIN result.files[2]

\* C12: an entry whose deletedFlag is "1", and an entry without resourceId,
\* is passed over: taking it lists nothing, opens no tab, writes nothing to
\* the store and issues no request; no descriptor is without resourceId.
C12_DeletedNeverListed ==
    /\ [](\A f \in Descriptors : f.resourceId # None)
    /\ [][(/\ pc = "att"
           /\ att_pos' = att_pos + 1
           /\ "resourceId" \in DOMAIN attachment'
           /\ (attachment'.deletedFlag = "1" \/ attachment'.resourceId = None))
          => (/\ pc' = "att"
              /\ result' = result
              /\ attempts' = attempts
              /\ tabs' = tabs
              /\ store' = store
              /\ gets' = gets)]_vars

\* A deleted public entry came after a listed one while a browser was there,
\* and the list did not grow.
C12_Witness ==
    /\ pc = "att"
    /\ browser_context
    /\ att_pos = 2
    /\ Len(result.files) = 1
    /\ "resourceId" \in DOMAIN attachment
    /\ attachment.deletedFlag = "1"
    /\ attachment.accessLevel = "public"

\* The descriptors that carry a storage key, the one in the making included.
Stored == {f \in Descriptors \cup {file_info} : "storageKey" \in DOMAIN f}

\* C13: a descriptor's storageKey is the pair of the opportunity identifier
\* and the sanitized filename, so two descriptors of a record with the same
\* filename carry the same key; the key is recorded only together with the
\* store write under that key, and downloadedSize is the length of the bytes
\* that write put there; the store changes in no other step.
C13_StorageKeyDeterministic ==
    /\ [](\A f \in Stored :
            /\ f.storageKey = <<opp_id, safe_filename(f.filename)>>
            /\ f.storageKey \in DOMAIN store
            /\ "downloadedSize" \in DOMAIN f)
    /\ [](\A f, g \in Stored : f.filename = g.filename => f.storageKey = g.storageKey)
    /\ [](\A i \in DOMAIN pushed : \A s \in pushed[i].stored :
            /\ s[1][1] = pushed[i].opportunityId
            /\ s[1] \in DOMAIN store)
    /\ [][(pc = "tab" /\ "storageKey" \in DOMAIN file_info')
          => /\ file_info'.storageKey \in DOMAIN store'
             /\ store'[file_info'.storageKey] = file_info'.downloadedSize
             /\ store' = SetKey(store, file_info'.storageKey, file_info'.downloadedSize)]_vars
    /\ [][store' # store => (pc = "tab" /\ "storageKey" \in DOMAIN file_info')]_vars

\* Two attachments of one record with the same filename, one that
\* sanitization changes, were both stored, under the same key.
C13_Witness ==
    /\ pc = "att"
    /\ Len(result.files) = 2
    /\ "storageKey" \in DOMAIN result.files[1]
    /\ "storageKey" \in DOMAIN result.files[2]
    /\ result.files[1].storageKey = result.files[2].storageKey
    /\ result.files[1].storageKey[2] # result.files[1].filename

\* ------------------------------------------------------------- sanitization on its own
\* Lines 432-433 applied to every filename over SanChars up to MaxNameLen
\* characters: letters, a digit, the four punctuation characters the code
\* keeps and two it does not.
SanChars == {"a", "P", "1", ".", "_", "-", " ", "/", ":"}

SanInit ==
    /\ max_opportunities = 1
    /\ download_attachments = TRUE
    /\ extract_text = FALSE
    /\ browser_context = TRUE
    /\ pc = "sanitize"
    /\ opportunities_fetched = 0
    /\ seen_ids = {}
    /\ page = 0
    /\ opportunities = <<>>
    /\ idx = 0
    /\ opp_id \in Ids
    /\ opportunity_data = EmptyDict
    /\ attachment = NoEntry
    /\ att_pos = 0
    /\ \E name \in SeqsUpTo(SanChars, MaxNameLen) : file_info = [filename |-> name]
    /\ result = EmptyResult
    /\ download_success = FALSE
    /\ tabs = 0
    /\ pushed = <<>>
    /\ store = EmptyDict
    /\ gets = EmptyDict
    /\ attempts = EmptyDict
    /\ sleeps = 0
    /\ served = 0
    /\ lastSearch = None
    /\ lastDetails = None
    /\ lastResources = None
    /\ acquired = FALSE
    /\ captured = {}

\* Lines 432-435: the key is computed and put in the descriptor.
Sanitize ==
    /\ pc = "sanitize"
    /\ file_info' = SetKey(file_info, "storageKey", file_key(opp_id, file_info.filename))
    /\ pc' = "sanitized"
    /\ UNCHANGED <<inputs, opportunities_fetched, seen_ids, page, opportunities, idx,
                   opp_id, opportunity_data, attachment, att_pos, result,
                   download_success, envv, attempts, pushed, sleeps,
                   lastSearch, lastDetails, lastResources, acquired, captured>>

SanNext == Sanitize

SanSpec == SanInit /\ [][SanNext]_vars

\* The characters the sanitization is to keep.
IsKept(c) == c \in AlnumChars \/ c \in {".", "_", "-", " "}

\* C14: the sanitized filename consists of exactly the characters of the
\* filename that are alphanumeric or one of . _ - and space, in their
\* order, and sanitizing it again returns it unchanged.
C14_SanitizeIdempotent ==
    pc = "sanitized" =>
        LET name == file_info.filename
            out == file_info.storageKey[2]
            kept == {p \in 1..Len(name) : IsKept(name[p])}
        IN  /\ Len(out) = Cardinality(kept)
            /\ \A p \in kept : out[Cardinality({q \in kept : q <= p})] = name[p]
            /\ safe_filename(out) = out

\* A filename with a character that is dropped between two that are kept.
C14_Witness ==
    /\ pc = "sanitized"
    /\ Len(file_info.filename) = 3
    /\ file_info.filename[2] = "/"
    /\ file_info.storageKey[2] = <<"a", " ">>

\* The text entries of the record in the making.
Texts ==
    {result.texts[i] : i \in DOMAIN result.texts}
    \cup (IF "attachmentTexts" \in DOMAIN opportunity_data
          THEN {opportunity_data.attachmentTexts[i] :
                  i \in DOMAIN opportunity_data.attachmentTexts}
          ELSE {})

\* The filename ends in .pdf, in any case of the letters.
EndsInPdf(n) ==
    /\ Len(n) >= 4
    /\ n[Len(n) - 3] = "."
    /\ n[Len(n) - 2] \in {"p", "P"}
    /\ n[Len(n) - 1] \in {"d", "D"}
    /\ n[Len(n)] \in {"f", "F"}

\* C15: every text entry of a record holds at most 50,000 characters and at
\* least one, belongs to an attachment that was stored and whose filename
\* ends in .pdf in any case, and exists only when extractText is on; with
\* extractText off the record's attachmentTexts is empty.
C15_TextBounded ==
    /\ \A t \in Texts :
         /\ t.text <= TEXT_LIMIT
         /\ t.text > 0
         /\ extract_text
         /\ EndsInPdf(t.filename)
         /\ \E f \in Stored : f.filename = t.filename
    /\ (~extract_text /\ pc = "push") => opportunity_data.attachmentTexts = <<>>

\* A record about to be pushed carries a text that was cut at the limit.
C15_Witness ==
    /\ pc = "push"
    /\ Len(opportunity_data.attachmentTexts) >= 1
    /\ opportunity_data.attachmentTexts[1].text = TEXT_LIMIT

SearchGets(g) == [u \in {v \in DOMAIN g : v[1] = "search"} |-> g[u]]

\* C17: the pages requested are 0, 1, 2, ... each once and none skipped; a
\* search request is issued only between pages, when no record is in
\* process and no tab is open; the page index advances only when the for
\* loop over the page has ended (its summaries used up, or the budget
\* reached), and each advance comes with one pause, so a pause lies between
\* any two consecutive search requests.
C17_PagesSequential ==
    /\ [](/\ \A u \in DOMAIN SearchGets(gets) : gets[u] = 1 /\ u[2] \in 0..page
          /\ \A p \in 0..(page - 1) : SearchUrl(p) \in DOMAIN gets
          /\ sleeps = page)
    /\ [][SearchGets(gets') # SearchGets(gets)
          => /\ SearchUrl(page) \notin DOMAIN gets
             /\ SearchGets(gets') = SetKey(SearchGets(gets), SearchUrl(page), 1)
             /\ pc = "while"
             /\ opp_id = None
             /\ opportunity_data = EmptyDict
             /\ tabs = 0
             /\ sleeps = page]_vars
    /\ [][page' # page
          => /\ page' = page + 1
             /\ sleeps' = sleeps + 1
             /\ gets' = gets
             /\ pc = "for"
             /\ pc' = "while"
             /\ opp_id = None
             /\ (idx > Len(opportunities) \/ opportunities_fetched >= max_opportunities)]_vars

\* Three pages were requested one after the other, with two pauses.
C17_Witness ==
    /\ pc = "for"
    /\ page = 2
    /\ sleeps = 2
    /\ \A p \in 0..2 : Count(gets, SearchUrl(p)) = 1

\* C18: once maxOpportunities records have been pushed, no step issues a
\* search, detail or manifest request, opens a tab, makes a download
\* attempt, writes to the store or pushes a record.
C18_NoRequestAfterBudget ==
    [][(max_opportunities >= 1 /\ Len(pushed) >= max_opportunities)
       => (/\ gets' = gets
           /\ attempts' = attempts
           /\ tabs' = tabs
           /\ store' = store
           /\ pushed' = pushed)]_vars

\* The budget of one was reached on the first of the two summaries of page
\* 0, and the run ended with that single search request.
C18_Witness ==
    /\ pc = "done"
    /\ ~download_attachments
    /\ max_opportunities = 1
    /\ Len(pushed) = 1
    /\ served = 2
    /\ page = 1
    /\ DOMAIN SearchGets(gets) = {SearchUrl(0)}

\* C19: at most one tab is open, and one is open exactly while a download
\* attempt is under way; every tab is opened for one attempt of its own;
\* whatever the attempt brought, page.close() is called before the outcome
\* is recorded, so no tab is open when a descriptor is listed.
C19_TabClosed ==
    /\ [](/\ tabs \in {0, 1}
          /\ tabs = 1 <=> pc \in {"tab", "close"})
    /\ [][tabs' > tabs
          => /\ tabs = 0
             /\ pc = "att"
             /\ pc' = "tab"
             /\ att_pos' = att_pos + 1
             /\ Count(attempts, <<opp_id, att_pos'>>) = 0
             /\ Count(attempts', <<opp_id, att_pos'>>) = 1]_vars
    /\ [][pc = "tab" => (pc' = "close" /\ tabs' = tabs)]_vars
    /\ [][pc = "close" => (pc' = "att" /\ tabs' = 0)]_vars
    /\ [][Len(result'.files) > Len(result.files) => tabs' = 0]_vars

\* Two attachments each had a tab of their own; the second attempt failed
\* and its tab is closed.
C19_Witness ==
    /\ pc = "att"
    /\ tabs = 0
    /\ att_pos = 2
    /\ Count(attempts, <<opp_id, 1>>) = 1
    /\ Count(attempts, <<opp_id, 2>>) = 1
    /\ ~acquired
    /\ Len(result.files) = 2

\* C20: when the manifest request answers with a status other than 200,
\* fails in transport or answers without attachment groups, nothing is
\* raised: the record goes on to the push with an empty attachment list and
\* no text, no tab was opened, no download attempt made and nothing stored
\* for it, and unless push_data itself raises it is pushed.
C20_ManifestFailureEmpty ==
    /\ [](lastResources \in {"status", "transport", "no_groups"} =>
            /\ pc = "push"
            /\ opportunity_data.opportunityId = opp_id
            /\ opportunity_data.attachments = <<>>
            /\ opportunity_data.attachmentTexts = <<>>
            /\ tabs = 0
            /\ attempts = EmptyDict
            /\ \A key \in DOMAIN store : key[1] # opp_id)
    /\ [][(pc = "resources" /\ lastResources' \in {"status", "transport", "no_groups"})
          => (tabs' = tabs /\ store' = store /\ attempts' = attempts)]_vars
    /\ [][(/\ pc = "push"
           /\ lastResources \in {"status", "transport", "no_groups"}
           /\ opportunities_fetched' # opportunities_fetched)
          => pushed' = Append(pushed, [opportunityId |-> opp_id, stored |-> {}])]_vars

\* The manifest request of a record failed in transport while a browser was
\* there to download, and the record is about to be pushed.
C20_Witness ==
    /\ pc = "push"
    /\ browser_context
    /\ lastResources = "transport"
    /\ lastDetails = "ok"

\* C21 as claimed: when the run has ended, the store holds under every
\* storageKey of a pushed record a payload whose length is the
\* downloadedSize recorded with that key.
C21_StoreMatchesSize ==
    pc = "done" =>
        \A i \in DOMAIN pushed : \A s \in pushed[i].stored :
            /\ s[1] \in DOMAIN store
            /\ store[s[1]] = s[2]

\* C22: a captured download of zero bytes is never written to the store and
\* never yields a storageKey: the store holds no empty payload, after a
\* capture of zero bytes the descriptor has no storageKey and the attempt
\* is not a success, and every downloadedSize, in the record in the making
\* and in the pushed records, is greater than zero.
C22_NonEmptyPayload ==
    /\ \A k \in DOMAIN store : store[k] > 0
    /\ (pc = "close" /\ captured = {0}) =>
           /\ "storageKey" \notin DOMAIN file_info
           /\ ~download_success
    /\ \A f \in Descriptors \cup {file_info} :
           "storageKey" \in DOMAIN f =>
               /\ "downloadedSize" \in DOMAIN f
               /\ f.downloadedSize > 0
    /\ \A i \in DOMAIN pushed : \A s \in pushed[i].stored : s[2] > 0

\* The browser handed over a file of zero bytes for the second attachment
\* of a record whose first attachment was stored: nothing was written for
\* it.
C22_Witness ==
    /\ pc = "close"
    /\ captured = {0}
    /\ ~download_success
    /\ Len(result.files) = 1
    /\ "storageKey" \in DOMAIN result.files[1]
    /\ result.files[1].downloadedSize = 1
    /\ "storageKey" \notin DOMAIN file_info
    /\ Cardinality(DOMAIN store) = 1

\* C23: the counter of emitted records equals the number of records pushed
\* at every point of the run; the seen set only grows and holds every
\* identifier in process and every pushed one; processing starts only for an
\* identifier that was not in the seen set; and the step in which the
\* processing of a record raises leaves its identifier in the seen set and
\* the counter as it was.
C23_CounterMatchesPushes ==
    /\ [](opportunities_fetched = Len(pushed))
    /\ [](/\ PushedIds \subseteq seen_ids
          /\ pc \in {"process", "details", "resources", "att", "tab", "close", "push"}
                => opp_id \in seen_ids)
    /\ [][seen_ids \subseteq seen_ids']_vars
    /\ [][(pc # "process" /\ pc' = "process")
          => (opp_id' \notin seen_ids /\ opp_id' \in seen_ids')]_vars
    /\ [][(/\ pc \in {"process", "details", "resources", "push"}
           /\ pc' = "for"
           /\ pushed' = pushed)
          => (/\ opp_id \in seen_ids'
              /\ opportunities_fetched' = opportunities_fetched)]_vars

\* The only identifier of page 0 raised in processing; page 1 served it
\* again and it was dropped there, with nothing pushed and nothing counted.
C23_Witness ==
    /\ pc = "for"
    /\ page = 1
    /\ idx = 2
    /\ Cardinality(seen_ids) = 1
    /\ opportunities[1] \in seen_ids
    /\ pushed = <<>>
    /\ opportunities_fetched = 0
    /\ max_opportunities >= 1

\* C24: when the search request of page K comes back empty or failed, the
\* run is over: K + 1 search requests were made, one for each of the pages
\* 0..K, and no request follows; and since the upstream has only so many
\* summaries and entries to serve, every run comes to its end, whatever the
\* duplicates and the records that fail on the way.
C24_TerminatesAtEmptyPage ==
    /\ [](lastSearch \in {"empty", "http_error"} =>
            /\ pc = "done"
            /\ {u \in DOMAIN gets : u[1] = "search"} = {SearchUrl(p) : p \in 0..page}
            /\ \A p \in 0..page : gets[SearchUrl(p)] = 1)
    /\ [][(lastSearch \in {"empty", "http_error"}) => (gets' = gets)]_vars
    /\ <>(pc \in {"done", "aborted"})

\* Page 0 served one summary whose processing raised, page 1 served it
\* again, page 2 came back empty: the run ended after three search requests
\* with nothing pushed.
C24_Witness ==
    /\ pc = "done"
    /\ lastSearch = "empty"
    /\ page = 2
    /\ Cardinality(seen_ids) = 1
    /\ pushed = <<>>
    /\ Cardinality({u \in DOMAIN gets : u[1] = "search"}) = 3
    /\ Cardinality(DOMAIN gets) <= 4

\* C25: an entry without accessLevel field is treated as public: it goes to
\* the download step (an attempt in the browser when there is a browser
\* context), its descriptor reads accessLevel 'public' and never carries the
\* 'Non-public access level' marker; an entry whose accessLevel is present
\* with a value other than 'public', null included, is listed with that
\* marker, with no attempt and no storageKey.
C25_MissingAccessLevelIsPublic ==
    /\ (pc = "att" /\ IsLive(attachment) /\ attachment.accessLevel = Missing) =>
          /\ Len(result.files) >= 1
          /\ LastFile.resourceId = attachment.resourceId
          /\ LastFile.accessLevel = "public"
          /\ "downloadError" \in DOMAIN LastFile =>
                LastFile.downloadError = DOWNLOAD_BLOCKED_ERROR
          /\ Count(attempts, <<opp_id, att_pos>>) = (IF browser_context THEN 1 ELSE 0)
    /\ (pc \in {"tab", "close"} /\ attachment.accessLevel = Missing) =>
          /\ file_info.accessLevel = "public"
          /\ "downloadError" \notin DOMAIN file_info
          /\ Count(attempts, <<opp_id, att_pos>>) = 1
    /\ (pc = "att" /\ IsLive(attachment)
           /\ attachment.accessLevel \notin {"public", Missing}) =>
          /\ Len(result.files) >= 1
          /\ LastFile.resourceId = attachment.resourceId
          /\ LastFile.accessLevel = attachment.accessLevel
          /\ LastFile.downloadError = NON_PUBLIC_ERROR
          /\ "storageKey" \notin DOMAIN LastFile
          /\ Count(attempts, <<opp_id, att_pos>>) = 0
    /\ pc \in {"tab", "close"} => attachment.accessLevel \in {"public", Missing}
    /\ \A f \in Descriptors : f.accessLevel # Missing

\* An entry without accessLevel was downloaded and stored, and the entry
\* before it, whose accessLevel is null, was skipped with the marker.
C25_Witness ==
    /\ pc = "att"
    /\ IsLive(attachment)
    /\ attachment.accessLevel = Missing
    /\ Len(result.files) = 2
    /\ result.files[1].accessLevel = None
    /\ result.files[1].downloadError = NON_PUBLIC_ERROR
    /\ "storageKey" \in DOMAIN result.files[2]
    /\ result.files[2].accessLevel = "public"
====
